---- MODULE Spec2Model ----
(***************************************************************************)
(* Model of the midl refinement pipeline (src/enrichr.py) and of the HTTP  *)
(* handler that drives it (src/main.py).                                   *)
(*                                                                         *)
(* Texts are TLA+ strings; positions are 0-based as in Python, so that     *)
(* s[a:b] is Slice(s, a, b) and str.find / str.rfind return -1 when the    *)
(* substring is absent.                                                    *)
(***************************************************************************)
EXTENDS Integers, Sequences, FiniteSets, TLC

VARIABLES
    llm,                \* enrichr.llm: "None" or the engine handle
    pc,                 \* position of process_request
    messages,           \* the caller's conversation (argument of process_request)
    config,             \* the PipelineConfig argument
    stream,             \* body.get('stream', False) of the HTTP request
    formatted_messages, \* local of process_request
    enriched_content,   \* local of process_request
    expert_persona,     \* local of process_request
    calls,              \* engine invocations issued for the current request
    responses,          \* engine responses received for the current request
    result,             \* value returned by process_request
    error,              \* exception raised by process_request ("none" when none)
    http,               \* position of the chat_completions handler
    events,             \* what the handler has sent to the client
    text,               \* input of the stand-alone extraction run
    extracted,          \* its result
    reextracted,        \* the result of extracting again from `extracted`
    xpc,                \* position of the stand-alone extraction run
    template,           \* template of the stand-alone rendering run
    value,              \* the value it substitutes
    rendered,           \* its outcome
    startup,            \* what the process finds when it starts
    process,            \* the server process: loading, serving or terminated
    reqs,               \* locals of the concurrent runs of process_request
    lists               \* the list objects those runs hold references to

pipe_vars == <<llm, pc, messages, config, stream, formatted_messages,
               enriched_content, expert_persona, calls, responses, result,
               error, http, events>>
r_vars == <<template, value, rendered>>
s_vars == <<startup, process>>
c_vars == <<reqs, lists>>
o_vars == <<s_vars, c_vars>>
x_vars == <<text, extracted, reextracted, xpc, r_vars, o_vars>>
vars == <<pipe_vars, x_vars>>

----------------------------------------------------------------------------
(* Bounds of the model *)

\* longest conversation of a request, in turns
MaxTurns == 2
\* longest text of the stand-alone extraction run, in pieces
MaxPieces == 5

----------------------------------------------------------------------------
(* Python string primitives *)

\* s[a:b] for 0 <= a, with b clipped to len(s)
Slice(s, a, b) == SubSeq(s, a + 1, IF b > Len(s) THEN Len(s) ELSE b)

\* s[a:]
SliceFrom(s, a) == SubSeq(s, a + 1, Len(s))

\* s[i:i+len(sub)] == sub
MatchAt(s, sub, i) ==
    /\ i >= 0
    /\ i + Len(sub) <= Len(s)
    /\ SubSeq(s, i + 1, i + Len(sub)) = sub

\* the positions >= start at which sub occurs in s
Occurrences(s, sub, start) ==
    {i \in (IF start < 0 THEN 0 ELSE start)..(Len(s) - Len(sub)) : MatchAt(s, sub, i)}

\* s.find(sub, start): lowest index >= start where sub occurs, else -1
find(s, sub, start) ==
    LET hits == Occurrences(s, sub, start)
    IN  IF hits = {} THEN -1
        ELSE CHOOSE i \in hits : \A j \in hits : i <= j

\* s.rfind(sub, start): highest index >= start where sub occurs, else -1
rfind_from(s, sub, start) ==
    LET hits == Occurrences(s, sub, start)
    IN  IF hits = {} THEN -1
        ELSE CHOOSE i \in hits : \A j \in hits : i >= j

\* the mutant of rfind: the first occurrence instead of the last
rfind_leftmost(s, sub) == find(s, sub, 0)

\* s.rfind(sub)
rfind(s, sub) == rfind_from(s, sub, 0)

\* characters str.strip() removes
Whitespace == {" ", "\t", "\n", "\r"}

\* the mutant of IsBlank: only the empty string counts
IsBlank_emptyonly(s) == s = ""

\* not s.strip()
IsBlank(s) == \A i \in 1..Len(s) : SubSeq(s, i, i) \in Whitespace

----------------------------------------------------------------------------
(* enrich_request: extraction of the refined prompt *)

start_tag == "<refined_prompt>"
end_tag == "</refined_prompt>"

\* mutant: no opening tag yields nothing instead of the whole response
ExtractRefinedPrompt_emptyOnMiss(response_text) ==
    LET start_idx == rfind(response_text, start_tag)
        content_start == start_idx + Len(start_tag)
        end_idx == find(response_text, end_tag, content_start)
    IN  IF start_idx = -1 THEN ""
        ELSE IF end_idx = -1 THEN SliceFrom(response_text, content_start)
        ELSE Slice(response_text, content_start, end_idx)

\* mutant: the closing tag is searched from the beginning of the text
ExtractRefinedPrompt_closeFromZero(response_text) ==
    LET start_idx == rfind(response_text, start_tag)
        content_start == start_idx + Len(start_tag)
        end_idx == find(response_text, end_tag, 0)
    IN  IF start_idx = -1 THEN response_text
        ELSE IF end_idx = -1 THEN SliceFrom(response_text, content_start)
        ELSE Slice(response_text, content_start, end_idx)

\* enrichr.py 144-168
ExtractRefinedPrompt(response_text) ==
    LET start_idx == rfind(response_text, start_tag)
        content_start == start_idx + Len(start_tag)
        end_idx == find(response_text, end_tag, content_start)
    IN  IF start_idx = -1 THEN response_text
        ELSE IF end_idx = -1 THEN SliceFrom(response_text, content_start)
        ELSE Slice(response_text, content_start, end_idx)

----------------------------------------------------------------------------
(* generate_expert: extraction of the persona *)

\* mutant: without a <reflection_points> tag the whole response is the block
ExtractExpert_blockOptional(response_text) ==
    LET reflection_start == rfind(response_text, "<reflection_points>")
        reflection_end ==
            rfind_from(response_text, "</reflection_points>", reflection_start)
        reflection_block ==
            IF reflection_start = -1 THEN response_text
            ELSE IF reflection_end = -1
            THEN SliceFrom(response_text, reflection_start)
            ELSE Slice(response_text, reflection_start, reflection_end)
        expert_start == find(reflection_block, "<ideal_expert>", 0)
        expert_end == find(reflection_block, "</ideal_expert>", expert_start)
    IN  IF expert_start = -1 THEN ""
        ELSE IF expert_end = -1
             THEN SliceFrom(reflection_block, expert_start + Len("<ideal_expert>"))
        ELSE Slice(reflection_block, expert_start + Len("<ideal_expert>"),
                   expert_end)

\* mutant: a block without <ideal_expert> is used verbatim as the persona
ExtractExpert_verbatimOnMiss(response_text) ==
    LET reflection_start == rfind(response_text, "<reflection_points>")
        reflection_end ==
            rfind_from(response_text, "</reflection_points>", reflection_start)
        reflection_block ==
            IF reflection_end = -1
            THEN SliceFrom(response_text, reflection_start)
            ELSE Slice(response_text, reflection_start, reflection_end)
        expert_start == find(reflection_block, "<ideal_expert>", 0)
        expert_end == find(reflection_block, "</ideal_expert>", expert_start)
    IN  IF reflection_start = -1 THEN ""
        ELSE IF expert_start = -1 THEN reflection_block
        ELSE IF expert_end = -1
             THEN SliceFrom(reflection_block, expert_start + Len("<ideal_expert>"))
        ELSE Slice(reflection_block, expert_start + Len("<ideal_expert>"),
                   expert_end)

\* enrichr.py 244-274
ExtractExpert(response_text) ==
    LET reflection_start == rfind(response_text, "<reflection_points>")
        reflection_end ==
            rfind_from(response_text, "</reflection_points>", reflection_start)
        reflection_block ==
            IF reflection_end = -1
            THEN SliceFrom(response_text, reflection_start)
            ELSE Slice(response_text, reflection_start, reflection_end)
        expert_start == find(reflection_block, "<ideal_expert>", 0)
        expert_end == find(reflection_block, "</ideal_expert>", expert_start)
    IN  IF reflection_start = -1 THEN ""
        ELSE IF expert_start = -1 THEN ""
        ELSE IF expert_end = -1
             THEN SliceFrom(reflection_block, expert_start + Len("<ideal_expert>"))
        ELSE Slice(reflection_block, expert_start + Len("<ideal_expert>"),
                   expert_end)

----------------------------------------------------------------------------
(* Templates.  The fixed instructional text of each document is elided as  *)
(* [...]; the text next to each placeholder is the source's.               *)

\* enrichr.py 71-132: prompt_template.format(user_request=latest_message)
RenderEnrich(latest_message) ==
    "<prompt>[...]</prompt>\n\nBELOW IS THE SAMPLE PROMPT:\n\n"
        \o latest_message \o "\n"

\* enrichr.py 185-232: prompt_template.format(context=enriched_context)
RenderPersona(enriched_context) ==
    "<prompt>[...]</prompt>\n\nBELOW IS THE SAMPLE PROMPT: \n\n"
        \o enriched_context \o "\n"

\* enrichr.py 276-326
build_final_prompt(enriched, persona) ==
    "<prompt>[...]\n  <persona>\n    " \o persona
        \o "\n  </persona>\n  <task>\n    <action>Explain in detail the following:</action>\n    <topic>"
        \o enriched \o "</topic>\n  </task>[...]\n</prompt>"

\* the fixed notices of process_request
EnrichFallback == "No enriched content generated. Returning original message."
PersonaFallback == "No expert persona generated. Returning enriched content."

----------------------------------------------------------------------------
(* PipelineConfig and the engine *)

\* config: dict = None
NoneConfig == [is_none |-> TRUE, map |-> <<>>]

\* a dict given as config
DictConfig(m) == [is_none |-> FALSE, map |-> m]

DefaultTemperature == "0.6"
DefaultTopP == "0.95"
DefaultMaxTokens == 32768

\* mutant: the configured value is ignored
Sampling_defaultOnly(cfg, key, default) == default

\* config.get(key, default) if config else default
Sampling(cfg, key, default) ==
    IF ~cfg.is_none /\ DOMAIN cfg.map # {} /\ key \in DOMAIN cfg.map
    THEN cfg.map[key]
    ELSE default

\* the arguments of one llm.create_chat_completion call
CreateChatCompletion(msgs, cfg) ==
    [messages |-> msgs,
     temperature |-> Sampling(cfg, "temperature", DefaultTemperature),
     top_p |-> Sampling(cfg, "top_p", DefaultTopP),
     max_tokens |-> Sampling(cfg, "max_tokens", DefaultMaxTokens)]

\* what the engine returns: the pipeline reads choices[0].message.content
Response(content) ==
    [choices |-> <<[message |-> [role |-> "assistant", content |-> content]]>>]

\* mutant: the persona is combined with the model response
ModelResponse_withPersona(response, persona) ==
    persona \o response.choices[1].message.content

\* response["choices"][0]["message"]["content"], as process_request returns it
ModelResponse(response, persona) == response.choices[1].message.content

\* response["choices"][0]["message"]["content"] in enrich_request / generate_expert
ResponseText(response) == response.choices[1].message.content

\* the function object enrich_request, as a value
EnrichRequestFunction == "<function enrich_request>"

\* enrichr.py 27: every turn but the last, as role/content dicts
History(msgs) ==
    IF Len(msgs) = 0 THEN <<>>
    ELSE [i \in 1..(Len(msgs) - 1) |->
            [role |-> msgs[i].role, content |-> msgs[i].content]]

\* enrichr.py 41: the turn appended for the final call
FinalTurn(last, final_prompt) ==
    [role |-> final_prompt, content |-> EnrichRequestFunction]

----------------------------------------------------------------------------
(* Inputs *)

Roles == {"user", "assistant"}
Contents == {"Tell me about bookstores.", "ok"}
Turns == [role : Roles, content : Contents]

\* conversations of at most MaxTurns turns, the empty one included
Conversations == UNION {[1..n -> Turns] : n \in 0..MaxTurns}

Configs ==
    {NoneConfig,
     DictConfig(<<>>),
     DictConfig([temperature |-> "0.2"]),
     DictConfig([temperature |-> "0.2", top_p |-> "0.5", max_tokens |-> 128])}

\* what the engine may answer to the enrichment call
EnrichResponses ==
    {"",
     " \n",
     "Plain answer with no tags.",
     "no opening tag</refined_prompt>",
     "<refined_prompt>What structural and operational factors make small independent bookstores commercially viable?</refined_prompt>",
     "<think><refined_prompt>draft</refined_prompt></think><refined_prompt>Q2</refined_prompt> bye",
     "<refined_prompt> \n\t</refined_prompt>trailing",
     "<refined_prompt>truncated"}

\* what the engine may answer to the persona call
PersonaResponses ==
    {"",
     "No tags here.",
     "<reflection_points><domain>Retail</domain><ideal_expert>Retail economist</ideal_expert></reflection_points>",
     "<reflection_points><domain>Retail</domain></reflection_points>",
     "<ideal_expert>Retail economist</ideal_expert>",
     "<reflection_points><ideal_expert> </ideal_expert></reflection_points>",
     "<reflection_points><ideal_expert>Historian",
     "<reflection_points></reflection_points><ideal_expert>Chemist</ideal_expert>"}

\* what the engine may answer to the final call
FinalResponses == {"Final answer.", ""}

\* most times initialize is called
MaxInits == 2

----------------------------------------------------------------------------
(* State *)

PipeInit ==
    /\ llm = 0
    /\ pc = "idle"
    /\ messages = <<>>
    /\ stream = FALSE
    /\ formatted_messages = <<>>
    /\ enriched_content = ""
    /\ expert_persona = ""
    /\ calls = <<>>
    /\ responses = <<>>
    /\ result = ""
    /\ error = "none"
    /\ http = "idle"
    /\ events = <<>>

\* the startup and the concurrent runs are not part of the run
OOff ==
    /\ startup = [file |-> TRUE, keys |-> {}, artifact |-> TRUE]
    /\ process = "untracked"
    /\ reqs = <<>>
    /\ lists = <<>>

ROff ==
    /\ template = ""
    /\ value = ""
    /\ rendered = [ok |-> TRUE, text |-> ""]

XOff ==
    /\ text = ""
    /\ extracted = ""
    /\ reextracted = ""
    /\ xpc = "off"
    /\ ROff
    /\ OOff

Init ==
    /\ PipeInit
    /\ config \in Configs
    /\ XOff

----------------------------------------------------------------------------
(* Operations *)

\* mutant: the guard is missing
IsNone_never(handle) == FALSE

\* enrichr.py 23, 67, 181: llm is None
IsNone(handle) == handle = 0

\* enrichr.py 12-19 (called from main.py 74 while the module is loaded,
\* before any request is served): llm becomes a new Llama object.
\* llm = 0 is None, n > 0 the n-th object created.
Initialize ==
    /\ http = "idle"
    /\ llm < MaxInits
    /\ llm' = llm + 1
    /\ UNCHANGED <<pc, messages, config, stream, formatted_messages,
                   enriched_content, expert_persona, calls, responses, result,
                   error, http, events, x_vars>>

\* main.py 108-123: the first chunk of a streamed response
RoleChunk == [object |-> "chat.completion.chunk", delta |-> [role |-> "assistant"]]

\* mutant: the content chunk carries a fixed text, not the returned value
ContentChunk_static(response_text) ==
    [object |-> "chat.completion.chunk", delta |-> [content |-> "ok"]]

\* main.py 127-128
ContentChunk(response_text) ==
    [object |-> "chat.completion.chunk", delta |-> [content |-> response_text]]

\* main.py 131
DoneEvent == [object |-> "[DONE]"]

\* main.py 140
JsonResponse(response_text) ==
    [object |-> "chat.completion",
     message |-> [role |-> "assistant", content |-> response_text]]

\* main.py 89-123: a request arrives; a streamed response starts with the
\* role chunk, sent before process_request is called
ChatCompletions ==
    /\ http = "idle"
    /\ \E msgs \in Conversations, s \in BOOLEAN :
        /\ messages' = msgs
        /\ stream' = s
        /\ events' = IF s THEN <<RoleChunk>> ELSE <<>>
    /\ http' = "handling"
    /\ pc' = "called"
    /\ formatted_messages' = <<>>
    /\ enriched_content' = ""
    /\ expert_persona' = ""
    /\ calls' = <<>>
    /\ responses' = <<>>
    /\ result' = ""
    /\ error' = "none"
    /\ UNCHANGED <<llm, config, x_vars>>

\* mutant: an empty conversation is enriched as an empty message
ProcessRequest_emptyEnriches ==
    /\ pc = "called"
    /\ IF IsNone(llm)
       THEN /\ pc' = "raised"
            /\ error' = "RuntimeError"
            /\ UNCHANGED <<formatted_messages, calls>>
       ELSE /\ formatted_messages' = History(messages)
            /\ calls' = Append(calls, CreateChatCompletion(
                   <<[role |-> "user",
                      content |-> RenderEnrich(
                          IF Len(messages) = 0 THEN ""
                          ELSE messages[Len(messages)].content)]>>,
                   config))
            /\ pc' = "enrich_call"
            /\ UNCHANGED error
    /\ UNCHANGED <<llm, messages, config, stream, enriched_content,
                   expert_persona, responses, result, http, events, x_vars>>

\* enrichr.py 21-29 and 67-140: process_request up to the enrichment call
ProcessRequest ==
    /\ pc = "called"
    /\ IF IsNone(llm)
       THEN /\ pc' = "raised"
            /\ error' = "RuntimeError"
            /\ UNCHANGED <<formatted_messages, calls>>
       ELSE IF Len(messages) = 0
       THEN /\ pc' = "raised"
            /\ error' = "IndexError"
            /\ formatted_messages' = History(messages)
            /\ UNCHANGED calls
       ELSE /\ formatted_messages' = History(messages)
            /\ calls' = Append(calls, CreateChatCompletion(
                   <<[role |-> "user",
                      content |-> RenderEnrich(messages[Len(messages)].content)]>>,
                   config))
            /\ pc' = "enrich_call"
            /\ UNCHANGED error
    /\ UNCHANGED <<llm, messages, config, stream, enriched_content,
                   expert_persona, responses, result, http, events, x_vars>>

\* mutant: the failure is swallowed and the fallback notice returned
EngineFails_fallback ==
    /\ pc \in {"enrich_call", "persona_call", "final_call"}
    /\ pc' = "returned"
    /\ result' = EnrichFallback
    /\ UNCHANGED <<llm, messages, config, stream, formatted_messages,
                   enriched_content, expert_persona, calls, responses, error,
                   http, events, x_vars>>

\* mutant: the failed invocation is issued once more
EngineFails_retry ==
    /\ pc \in {"enrich_call", "persona_call", "final_call"}
    /\ Len(calls) < 4
    /\ calls' = Append(calls, calls[Len(calls)])
    /\ UNCHANGED <<llm, pc, messages, config, stream, formatted_messages,
                   enriched_content, expert_persona, responses, result, error,
                   http, events, x_vars>>

\* llm.create_chat_completion raises: nothing catches it in enrichr.py
EngineFails ==
    /\ pc \in {"enrich_call", "persona_call", "final_call"}
    /\ pc' = "raised"
    /\ error' = "EngineError"
    /\ UNCHANGED <<llm, messages, config, stream, formatted_messages,
                   enriched_content, expert_persona, calls, responses, result,
                   http, events, x_vars>>

\* mutant: the persona template is rendered with the original last message
EnrichReturns_originalMessage ==
    /\ pc = "enrich_call"
    /\ \E r \in EnrichResponses :
        LET response == Response(r)
            enriched == ExtractRefinedPrompt(ResponseText(response))
        IN  /\ responses' = Append(responses, response)
            /\ enriched_content' = enriched
            /\ IF IsBlank(enriched)
               THEN /\ result' = EnrichFallback
                    /\ pc' = "returned"
                    /\ UNCHANGED calls
               ELSE /\ calls' = Append(calls, CreateChatCompletion(
                           <<[role |-> "user",
                              content |-> RenderPersona(
                                  messages[Len(messages)].content)]>>,
                           config))
                    /\ pc' = "persona_call"
                    /\ UNCHANGED result
    /\ UNCHANGED <<llm, messages, config, stream, formatted_messages,
                   expert_persona, error, http, events, x_vars>>

\* enrichr.py 142-168, 30-35 and 181-240: the enrichment call returns
EnrichReturns ==
    /\ pc = "enrich_call"
    /\ \E r \in EnrichResponses :
        LET response == Response(r)
            enriched == ExtractRefinedPrompt(ResponseText(response))
        IN  /\ responses' = Append(responses, response)
            /\ enriched_content' = enriched
            /\ IF IsBlank(enriched)
               THEN /\ result' = EnrichFallback
                    /\ pc' = "returned"
                    /\ UNCHANGED calls
               ELSE /\ calls' = Append(calls, CreateChatCompletion(
                           <<[role |-> "user", content |-> RenderPersona(enriched)]>>,
                           config))
                    /\ pc' = "persona_call"
                    /\ UNCHANGED result
    /\ UNCHANGED <<llm, messages, config, stream, formatted_messages,
                   expert_persona, error, http, events, x_vars>>

\* mutant: a blank persona sends the run back to the enrichment stage
PersonaReturns_backToEnrich ==
    /\ pc = "persona_call"
    /\ Len(calls) < 5
    /\ \E r \in PersonaResponses :
        /\ responses' = Append(responses, Response(r))
        /\ expert_persona' = ExtractExpert(ResponseText(Response(r)))
    /\ calls' = Append(calls, calls[1])
    /\ pc' = "enrich_call"
    /\ UNCHANGED <<llm, messages, config, stream, formatted_messages,
                   enriched_content, result, error, http, events, x_vars>>

\* enrichr.py 242-274 and 36-50: the persona call returns
PersonaReturns ==
    /\ pc = "persona_call"
    /\ \E r \in PersonaResponses :
        LET response == Response(r)
            persona == ExtractExpert(ResponseText(response))
            final_prompt == build_final_prompt(enriched_content, persona)
            final_messages ==
                Append(formatted_messages,
                       FinalTurn(messages[Len(messages)], final_prompt))
        IN  /\ responses' = Append(responses, response)
            /\ expert_persona' = persona
            /\ IF IsBlank(persona)
               THEN /\ result' = PersonaFallback
                    /\ pc' = "returned"
                    /\ UNCHANGED <<calls, formatted_messages>>
               ELSE /\ formatted_messages' = final_messages
                    /\ calls' = Append(calls,
                                       CreateChatCompletion(final_messages, config))
                    /\ pc' = "final_call"
                    /\ UNCHANGED result
    /\ UNCHANGED <<llm, messages, config, stream, enriched_content, error,
                   http, events, x_vars>>

\* enrichr.py 52-54: the final call returns
FinalReturns ==
    /\ pc = "final_call"
    /\ \E r \in FinalResponses :
        /\ responses' = Append(responses, Response(r))
        /\ result' = ModelResponse(Response(r), expert_persona)
    /\ pc' = "returned"
    /\ UNCHANGED <<llm, messages, config, stream, formatted_messages,
                   enriched_content, expert_persona, calls, error, http,
                   events, x_vars>>

\* main.py 125-131 and 139-141: process_request returned
Respond ==
    /\ http = "handling"
    /\ pc = "returned"
    /\ events' = IF stream
                 THEN events \o <<ContentChunk(result), DoneEvent>>
                 ELSE <<JsonResponse(result)>>
    /\ http' = "responded"
    /\ UNCHANGED <<llm, pc, messages, config, stream, formatted_messages,
                   enriched_content, expert_persona, calls, responses, result,
                   error, x_vars>>

\* main.py 143-145: the exception of process_request is re-raised
HandlerRaises ==
    /\ http = "handling"
    /\ pc = "raised"
    /\ http' = "failed"
    /\ UNCHANGED <<llm, pc, messages, config, stream, formatted_messages,
                   enriched_content, expert_persona, calls, responses, result,
                   error, events, x_vars>>

\* the handler is over: the request's conversation, the locals of
\* process_request and the response are dropped; llm and config stay
Finish ==
    /\ http \in {"responded", "failed"}
    /\ http' = "idle"
    /\ pc' = "idle"
    /\ messages' = <<>>
    /\ stream' = FALSE
    /\ formatted_messages' = <<>>
    /\ enriched_content' = ""
    /\ expert_persona' = ""
    /\ calls' = <<>>
    /\ responses' = <<>>
    /\ result' = ""
    /\ error' = "none"
    /\ events' = <<>>
    /\ UNCHANGED <<llm, config, x_vars>>

Next ==
    \/ Initialize
    \/ ChatCompletions
    \/ ProcessRequest
    \/ EngineFails
    \/ EnrichReturns
    \/ PersonaReturns
    \/ FinalReturns
    \/ Respond
    \/ HandlerRaises
    \/ Finish

Spec == Init /\ [][Next]_vars

----------------------------------------------------------------------------
(* The extraction of enrich_request run on its own, on every text of at    *)
(* most MaxPieces pieces, and once more on its own result.                 *)

Pieces == {start_tag, end_tag, "a", " ", "<refined_prompt"}

RECURSIVE Texts(_)
Texts(n) ==
    IF n = 0 THEN {""}
    ELSE LET shorter == Texts(n - 1)
         IN  shorter \cup {p \o t : p \in Pieces, t \in shorter}

XInit ==
    /\ PipeInit
    /\ config = NoneConfig
    /\ text \in Texts(MaxPieces)
    /\ extracted = ""
    /\ reextracted = ""
    /\ xpc = "input"
    /\ ROff
    /\ OOff

Extract ==
    /\ xpc = "input"
    /\ extracted' = ExtractRefinedPrompt(text)
    /\ xpc' = "extracted"
    /\ UNCHANGED <<pipe_vars, text, reextracted, r_vars, o_vars>>

ExtractAgain ==
    /\ xpc = "extracted"
    /\ reextracted' = ExtractRefinedPrompt(extracted)
    /\ xpc' = "again"
    /\ UNCHANGED <<pipe_vars, text, extracted, r_vars, o_vars>>

XNext == Extract \/ ExtractAgain

SpecExtract == XInit /\ [][XNext]_vars

----------------------------------------------------------------------------
(* Vocabulary of the properties, stated without the operators of the code  *)

\* s is empty or consists of whitespace only
WhitespaceOnly(s) ==
    \A i \in 1..Len(s) : SubSeq(s, i, i) \in {" ", "\t", "\n", "\r"}

\* tag occurs somewhere in s
HasTag(s, tag) ==
    \E i \in 1..Len(s) : i + Len(tag) - 1 <= Len(s) /\ SubSeq(s, i, i + Len(tag) - 1) = tag

\* tag occurs in s at the 1-based position i
TagAt(s, tag, i) ==
    i >= 1 /\ i + Len(tag) - 1 <= Len(s) /\ SubSeq(s, i, i + Len(tag) - 1) = tag

\* i is the position of the last opening tag of s
LastOpenAt(s, i) ==
    TagAt(s, start_tag, i) /\ \A k \in (i + 1)..Len(s) : ~TagAt(s, start_tag, k)

\* j is the position of the first closing tag of s after the opening tag at i
FirstCloseAfter(s, i, j) ==
    /\ j >= i + Len(start_tag)
    /\ TagAt(s, end_tag, j)
    /\ \A k \in (i + Len(start_tag))..(j - 1) : ~TagAt(s, end_tag, k)

\* the text of the n-th engine response of the request
ResponseContent(n) == responses[n].choices[1].message.content

\* the last turn of the caller's conversation
LastTurn == messages[Len(messages)]

\* the assistant content the handler delivered to the client
Delivered ==
    IF stream THEN events[2].delta.content ELSE events[1].message.content

----------------------------------------------------------------------------
(* Properties of process_request (specification Spec) *)

\* C1: when enrichment and persona are both non-blank, the final engine
\* invocation receives the history (every input turn but the last, unchanged
\* and in order) followed by exactly one turn with the role of the original
\* last turn and the composed document as content.
C1_FinalCallMessages ==
    Len(calls) = 3 =>
        calls[3].messages =
            [i \in 1..Len(messages) |->
                IF i < Len(messages)
                THEN [role |-> messages[i].role, content |-> messages[i].content]
                ELSE [role |-> LastTurn.role,
                      content |-> build_final_prompt(enriched_content,
                                                     expert_persona)]]

\* C2: when the string extracted by the enrichment stage is empty or
\* whitespace-only, process_request returns the enrichment fallback notice
\* normally and the engine was invoked exactly once.
C2_EnrichEmptyFallback ==
    (Len(responses) >= 1 /\ WhitespaceOnly(enriched_content)) =>
        /\ pc = "returned"
        /\ error = "none"
        /\ result = EnrichFallback
        /\ Len(calls) = 1
        /\ Len(responses) = 1

C2_Witness ==
    /\ pc = "returned"
    /\ ResponseContent(1) = "<refined_prompt> \n\t</refined_prompt>trailing"
    /\ enriched_content = " \n\t"
    /\ result = EnrichFallback
    /\ Len(calls) = 1

\* C3 as stated: a first response without <refined_prompt> tags makes
\* process_request return the enrichment fallback notice with no persona or
\* final invocation.
C3_NoTagsFallback ==
    (Len(responses) >= 1
        /\ ~HasTag(ResponseContent(1), start_tag)
        /\ ~HasTag(ResponseContent(1), end_tag)) =>
        /\ pc = "returned"
        /\ result = EnrichFallback
        /\ Len(calls) = 1

\* C3 amended: a first response without <refined_prompt> tags is used
\* verbatim as the refined request; process_request returns the enrichment
\* fallback notice with no persona or final invocation when that text is
\* empty or whitespace-only, and otherwise goes on to invoke the persona
\* stage with it.
C3_NoTagsVerbatim ==
    (Len(responses) >= 1
        /\ ~HasTag(ResponseContent(1), start_tag)
        /\ ~HasTag(ResponseContent(1), end_tag)) =>
        /\ enriched_content = ResponseContent(1)
        /\ WhitespaceOnly(ResponseContent(1)) =>
            /\ pc = "returned"
            /\ result = EnrichFallback
            /\ Len(calls) = 1
        /\ ~WhitespaceOnly(ResponseContent(1)) =>
            /\ Len(calls) >= 2
            /\ calls[2].messages =
                <<[role |-> "user",
                   content |-> RenderPersona(ResponseContent(1))]>>

C3_Witness ==
    /\ Len(responses) = 1
    /\ ResponseContent(1) = "Plain answer with no tags."
    /\ pc = "persona_call"
    /\ Len(calls) = 2

\* C4: when the enrichment is non-blank and the persona is empty or
\* whitespace-only (in particular when the second response has a
\* <reflection_points> block without <ideal_expert>), process_request returns
\* the persona fallback notice normally after exactly two invocations.
C4_PersonaEmptyFallback ==
    (Len(responses) >= 2
        /\ ~WhitespaceOnly(enriched_content)
        /\ \/ WhitespaceOnly(expert_persona)
           \/ /\ HasTag(ResponseContent(2), "<reflection_points>")
              /\ ~HasTag(ResponseContent(2), "<ideal_expert>")) =>
        /\ pc = "returned"
        /\ error = "none"
        /\ result = PersonaFallback
        /\ Len(calls) = 2
        /\ Len(responses) = 2

C4_Witness ==
    /\ pc = "returned"
    /\ Len(responses) = 2
    /\ enriched_content = "Q2"
    /\ ResponseContent(2) =
           "<reflection_points><domain>Retail</domain></reflection_points>"
    /\ result = PersonaFallback
    /\ Len(calls) = 2

\* C5: on the PERSONA_EMPTY exit the returned string contains the enriched
\* content of the request.
C5_PersonaFallbackHasEnriched ==
    (pc = "returned" /\ Len(responses) = 2 /\ WhitespaceOnly(expert_persona)) =>
        HasTag(result, enriched_content)

----------------------------------------------------------------------------
(* Properties of the extraction (specification SpecExtract) *)

\* C7: when a closing tag follows the last opening tag, the result is the
\* substring strictly between the last opening tag and the first closing tag
\* after it.
C7_LastOpenFirstClose ==
    xpc # "input" =>
        \A i \in 1..Len(text) :
            LastOpenAt(text, i) =>
                \A j \in 1..Len(text) :
                    FirstCloseAfter(text, i, j) =>
                        extracted = SubSeq(text, i + Len(start_tag), j - 1)

C7_Witness ==
    /\ xpc = "extracted"
    /\ text = start_tag \o " " \o start_tag \o "a" \o end_tag
    /\ extracted = "a"

\* C8: when the opening tag occurs nowhere, the result is the input
\* unchanged, also when the text contains the closing tag.
C8_NoOpenTagVerbatim ==
    (xpc # "input" /\ ~HasTag(text, start_tag)) => extracted = text

C8_Witness ==
    /\ xpc = "extracted"
    /\ text = "a" \o end_tag \o " "
    /\ extracted = text

\* C9: when the opening tag occurs but no closing tag occurs after its last
\* occurrence, the result is everything after the last opening tag; closing
\* tags before it are ignored.
C9_NoCloseToEnd ==
    xpc # "input" =>
        \A i \in 1..Len(text) :
            (LastOpenAt(text, i)
                /\ ~\E j \in 1..Len(text) : FirstCloseAfter(text, i, j)) =>
                extracted = SubSeq(text, i + Len(start_tag), Len(text))

C9_Witness ==
    /\ xpc = "extracted"
    /\ text = "a" \o end_tag \o start_tag \o "a" \o " "
    /\ extracted = "a "

\* C10: extracting again from the result of an extraction returns that result
\* unchanged; a result never contains the opening tag when one was found.
C10_Idempotent ==
    /\ xpc = "again" => reextracted = extracted
    /\ (xpc # "input" /\ HasTag(text, start_tag)) => ~HasTag(extracted, start_tag)

C10_Witness ==
    /\ xpc = "again"
    /\ text = start_tag \o "a" \o start_tag \o "a" \o end_tag
    /\ extracted = "a"
    /\ reextracted = "a"

----------------------------------------------------------------------------
(* The extraction of generate_expert run on its own, on every response of  *)
(* at most MaxPieces pieces.                                               *)

ExpertPieces ==
    {"<reflection_points>", "</reflection_points>",
     "<ideal_expert>", "</ideal_expert>", "a", " "}

RECURSIVE TextsOf(_, _)
TextsOf(pieces, n) ==
    IF n = 0 THEN {""}
    ELSE LET shorter == TextsOf(pieces, n - 1)
         IN  shorter \cup {p \o t : p \in pieces, t \in shorter}

EInit ==
    /\ PipeInit
    /\ config = NoneConfig
    /\ text \in TextsOf(ExpertPieces, MaxPieces)
    /\ extracted = ""
    /\ reextracted = ""
    /\ xpc = "expert_input"
    /\ ROff
    /\ OOff

\* enrichr.py 242-274 applied to the response `text`
ExtractPersona ==
    /\ xpc = "expert_input"
    /\ extracted' = ExtractExpert(text)
    /\ xpc' = "expert_done"
    /\ UNCHANGED <<pipe_vars, text, reextracted, r_vars, o_vars>>

ENext == ExtractPersona

SpecExpert == EInit /\ [][ENext]_vars

----------------------------------------------------------------------------
(* Properties of the persona extraction (specification SpecExpert) *)

\* the 1-based positions of tag in s, from position `from` on
TagPositions(s, tag, from) == {i \in from..Len(s) : TagAt(s, tag, i)}

Smallest(S) == CHOOSE i \in S : \A j \in S : i <= j
Largest(S) == CHOOSE i \in S : \A j \in S : i >= j

\* the tolerant Tag Extractor of the specification: last opening tag, first
\* closing tag after it, the text itself when there is no opening tag, to
\* the end of the text when there is no closing tag
TolerantExtract(s, open, close) ==
    LET opens == TagPositions(s, open, 1)
        from == Largest(opens) + Len(open)
        closes == TagPositions(s, close, from)
    IN  IF opens = {} THEN s
        ELSE IF closes = {} THEN SubSeq(s, from, Len(s))
        ELSE SubSeq(s, from, Smallest(closes) - 1)

\* the block generate_expert works on: from the last <reflection_points>,
\* the tag included, to the last </reflection_points> after it, or to the end
ReflectionBlock(s) ==
    LET i == Largest(TagPositions(s, "<reflection_points>", 1))
        closes == TagPositions(s, "</reflection_points>", i)
    IN  IF closes = {} THEN SubSeq(s, i, Len(s))
        ELSE SubSeq(s, i, Largest(closes) - 1)

\* the field of a block: from the first <ideal_expert> to the first
\* </ideal_expert> after it, or to the end of the block
ExpertField(b) ==
    LET k == Smallest(TagPositions(b, "<ideal_expert>", 1))
        from == k + Len("<ideal_expert>")
        closes == TagPositions(b, "</ideal_expert>", from)
    IN  IF closes = {} THEN SubSeq(b, from, Len(b))
        ELSE SubSeq(b, from, Smallest(closes) - 1)

\* C11 as stated: the persona is the tolerant Tag Extractor applied twice,
\* with the reflection_points tags and then with the ideal_expert tags.
C11_TolerantTwice ==
    xpc = "expert_done" =>
        extracted =
            TolerantExtract(
                TolerantExtract(text, "<reflection_points>", "</reflection_points>"),
                "<ideal_expert>", "</ideal_expert>")

\* C11 amended: the persona is empty when the response has no
\* <reflection_points> opening tag or the block has no <ideal_expert> opening
\* tag; otherwise it is the text between the first <ideal_expert> of the
\* block and the first </ideal_expert> after it (to the end of the block
\* when there is none), the block running from the last <reflection_points>
\* to the last </reflection_points> after it (to the end of the response
\* when there is none).
C11_StrictTwoStep ==
    xpc = "expert_done" =>
        extracted =
            IF ~HasTag(text, "<reflection_points>") THEN ""
            ELSE IF ~HasTag(ReflectionBlock(text), "<ideal_expert>") THEN ""
            ELSE ExpertField(ReflectionBlock(text))

C11_Witness ==
    /\ xpc = "expert_done"
    /\ text = "<reflection_points>" \o "<ideal_expert>" \o "a"
                \o "<ideal_expert>" \o " "
    /\ extracted = "a<ideal_expert> "

----------------------------------------------------------------------------
(* enrich_request and generate_expert called directly, not through         *)
(* process_request.  http names the function the caller is in.             *)

\* enrichr.py 56-140: enrich_request(latest_message, config) up to its call
EnrichRequestDirect ==
    /\ http = "idle"
    /\ \E latest_message \in Contents :
        IF IsNone(llm)
        THEN /\ pc' = "raised"
             /\ error' = "RuntimeError"
             /\ UNCHANGED calls
        ELSE /\ calls' = <<CreateChatCompletion(
                    <<[role |-> "user", content |-> RenderEnrich(latest_message)]>>,
                    config)>>
             /\ pc' = "enrich_direct"
             /\ UNCHANGED error
    /\ http' = "enrich_request"
    /\ UNCHANGED <<llm, messages, config, stream, formatted_messages,
                   enriched_content, expert_persona, responses, result, events,
                   x_vars>>

\* enrichr.py 170-240: generate_expert(enriched_context, config) up to its call
GenerateExpertDirect ==
    /\ http = "idle"
    /\ \E enriched_context \in Contents :
        IF IsNone(llm)
        THEN /\ pc' = "raised"
             /\ error' = "RuntimeError"
             /\ UNCHANGED calls
        ELSE /\ calls' = <<CreateChatCompletion(
                    <<[role |-> "user", content |-> RenderPersona(enriched_context)]>>,
                    config)>>
             /\ pc' = "expert_direct"
             /\ UNCHANGED error
    /\ http' = "generate_expert"
    /\ UNCHANGED <<llm, messages, config, stream, formatted_messages,
                   enriched_content, expert_persona, responses, result, events,
                   x_vars>>

\* enrichr.py 135-140, 235-240: the call raises
DirectEngineFails ==
    /\ pc \in {"enrich_direct", "expert_direct"}
    /\ pc' = "raised"
    /\ error' = "EngineError"
    /\ UNCHANGED <<llm, messages, config, stream, formatted_messages,
                   enriched_content, expert_persona, calls, responses, result,
                   http, events, x_vars>>

\* enrichr.py 142-168: the call of enrich_request returns
EnrichDirectReturns ==
    /\ pc = "enrich_direct"
    /\ \E r \in EnrichResponses :
        /\ responses' = Append(responses, Response(r))
        /\ result' = ExtractRefinedPrompt(ResponseText(Response(r)))
    /\ pc' = "returned"
    /\ UNCHANGED <<llm, messages, config, stream, formatted_messages,
                   enriched_content, expert_persona, calls, error, http, events,
                   x_vars>>

\* enrichr.py 242-274: the call of generate_expert returns
ExpertDirectReturns ==
    /\ pc = "expert_direct"
    /\ \E r \in PersonaResponses :
        /\ responses' = Append(responses, Response(r))
        /\ result' = ExtractExpert(ResponseText(Response(r)))
    /\ pc' = "returned"
    /\ UNCHANGED <<llm, messages, config, stream, formatted_messages,
                   enriched_content, expert_persona, calls, error, http, events,
                   x_vars>>

\* the direct call is over
DirectFinish ==
    /\ http \in {"enrich_request", "generate_expert"}
    /\ pc \in {"returned", "raised"}
    /\ http' = "idle"
    /\ pc' = "idle"
    /\ calls' = <<>>
    /\ responses' = <<>>
    /\ result' = ""
    /\ error' = "none"
    /\ UNCHANGED <<llm, messages, config, stream, formatted_messages,
                   enriched_content, expert_persona, events, x_vars>>

LibNext ==
    \/ Next
    \/ EnrichRequestDirect
    \/ GenerateExpertDirect
    \/ DirectEngineFails
    \/ EnrichDirectReturns
    \/ ExpertDirectReturns
    \/ DirectFinish

SpecLib == Init /\ [][LibNext]_vars

\* C12: a call of process_request, enrich_request or generate_expert made
\* while the engine handle is not initialized raises an error to the caller
\* and issues no engine invocation.
C12_UninitializedRaises ==
    llm = 0 =>
        /\ calls = <<>>
        /\ responses = <<>>
        /\ result = ""
        /\ pc \in {"idle", "called", "raised"}
        /\ pc = "raised" => error = "RuntimeError"
        /\ http \in {"enrich_request", "generate_expert"} => pc = "raised"
        /\ http = "failed" => (pc = "raised" /\ error = "RuntimeError")

C12_Witness ==
    /\ llm = 0
    /\ http = "generate_expert"
    /\ pc = "raised"
    /\ error = "RuntimeError"
    /\ calls = <<>>

----------------------------------------------------------------------------
(* Further properties of process_request (specification Spec) *)

\* C13: once initialize has completed, a further call of initialize leaves
\* the engine handle the one created by the first call.
C13_InitializeOnce == [][llm # 0 => llm' = llm]_vars

\* process_request waits for the engine
InCall == pc \in {"enrich_call", "persona_call", "final_call"}

\* C14: an engine invocation that fails is raised to the caller as it is:
\* the step that ends a call without a response raises the engine's error,
\* issues no invocation and returns nothing; while the request lasts the
\* error stays, no invocation follows and no notice or result is delivered.
C14_EngineFailurePropagates ==
    /\ [](error = "EngineError" =>
            /\ pc = "raised"
            /\ result = ""
            /\ Len(calls) = Len(responses) + 1
            /\ events \in {<<>>, <<RoleChunk>>})
    /\ [][(InCall /\ responses' = responses) =>
            /\ pc' = "raised"
            /\ error' = "EngineError"
            /\ calls' = calls
            /\ result' = result]_vars
    /\ [][(pc = "raised" /\ http' # "idle") =>
            /\ pc' = "raised"
            /\ error' = error
            /\ calls' = calls
            /\ events' = events]_vars

C14_Witness ==
    /\ error = "EngineError"
    /\ pc = "raised"
    /\ Len(calls) = 2
    /\ Len(responses) = 1
    /\ http = "failed"
    /\ stream

\* the value the request's config gives a sampling parameter
Configured(key, default) ==
    IF config.is_none THEN default
    ELSE IF key \in DOMAIN config.map THEN config.map[key]
    ELSE default

\* C15: every engine invocation of a request receives the sampling
\* parameters of the request's config, each resolved on its own: the
\* configured value when the key is present, otherwise temperature 0.6,
\* top_p 0.95, max_tokens 32768.
C15_SamplingParameters ==
    \A i \in 1..Len(calls) :
        /\ calls[i].temperature = Configured("temperature", "0.6")
        /\ calls[i].top_p = Configured("top_p", "0.95")
        /\ calls[i].max_tokens = Configured("max_tokens", 32768)

C15_Witness ==
    /\ Len(calls) = 3
    /\ config = DictConfig([temperature |-> "0.2"])
    /\ \A i \in 1..3 :
        /\ calls[i].temperature = "0.2"
        /\ calls[i].top_p = "0.95"
        /\ calls[i].max_tokens = 32768

\* C16: the invocations of a request are the enrichment, the persona and
\* the final invocation, in that order, each at most once and each issued
\* only after the response to the previous one was received.
C16_SequentialStages ==
    /\ Len(calls) <= 3
    /\ Len(responses) <= Len(calls)
    /\ Len(calls) <= Len(responses) + 1
    /\ Len(calls) >= 1 =>
        calls[1].messages =
            <<[role |-> "user", content |-> RenderEnrich(LastTurn.content)]>>
    /\ Len(calls) >= 2 =>
        calls[2].messages =
            <<[role |-> "user", content |-> RenderPersona(enriched_content)]>>
    /\ Len(calls) = 3 =>
        /\ calls[3].messages = formatted_messages
        /\ Len(calls[3].messages) = Len(messages)

C16_Witness ==
    /\ pc = "returned"
    /\ Len(calls) = 3
    /\ Len(responses) = 3
    /\ Len(messages) = 2

----------------------------------------------------------------------------
(* str.format as enrich_request and generate_expert use it: one keyword    *)
(* argument, plain {name} fields, {{ and }} for literal braces.  The        *)
(* outcome is the text, or the exception raised.                           *)

\* the templates of the two stages, the fixed text elided as in
\* RenderEnrich and RenderPersona
EnrichTemplate ==
    "<prompt>[...]</prompt>\n\nBELOW IS THE SAMPLE PROMPT:\n\n{user_request}\n"
PersonaTemplate ==
    "<prompt>[...]</prompt>\n\nBELOW IS THE SAMPLE PROMPT: \n\n{context}\n"

Formatted(t) == [ok |-> TRUE, text |-> t]
Raised(e) == [ok |-> FALSE, text |-> e]

\* literal text followed by the outcome of the rest
Prepend(prefix, r) == IF r.ok THEN Formatted(prefix \o r.text) ELSE r

RECURSIVE FormatFrom(_, _, _, _)
\* the outcome of formatting t[pos:] with name=v
FormatFrom(t, pos, name, v) ==
    LET o == find(t, "{", pos)
        c == find(t, "}", pos)
    IN  IF o = -1 /\ c = -1 THEN Formatted(SliceFrom(t, pos))
        ELSE IF c # -1 /\ (o = -1 \/ c < o)
        THEN IF MatchAt(t, "}}", c)
             THEN Prepend(Slice(t, pos, c) \o "}", FormatFrom(t, c + 2, name, v))
             ELSE Raised("ValueError")
        ELSE IF MatchAt(t, "{{", o)
        THEN Prepend(Slice(t, pos, o) \o "{", FormatFrom(t, o + 2, name, v))
        ELSE LET e == find(t, "}", o + 1)
                 field == Slice(t, o + 1, e)
             IN  IF e = -1 THEN Raised("ValueError")
                 ELSE IF find(field, "{", 0) # -1 THEN Raised("ValueError")
                 ELSE IF field = "" THEN Raised("IndexError")
                 ELSE IF field # name THEN Raised("KeyError")
                 ELSE Prepend(Slice(t, pos, o) \o v,
                              FormatFrom(t, e + 1, name, v))

\* mutant: the value is spliced in first and the whole text formatted again
Format_rescan(t, name, v) ==
    LET r == FormatFrom(t, 0, name, v)
    IN  IF r.ok THEN FormatFrom(r.text, 0, name, v) ELSE r

\* enrichr.py 132, 232: prompt_template.format(name=v)
Format(t, name, v) == FormatFrom(t, 0, name, v)

\* longest template of the stand-alone rendering run, in pieces
MaxTemplatePieces == 3
\* longest value of the stand-alone rendering run, in pieces
MaxValuePieces == 2

TemplatePieces == {"{user_request}", "{", "}", "{{", "<p>", "a"}
ValuePieces == {"{user_request}", "{", "}", "<b>", "a"}

Templates ==
    {[text |-> EnrichTemplate, field |-> "user_request"],
     [text |-> PersonaTemplate, field |-> "context"]}
    \cup {[text |-> t, field |-> "user_request"] :
            t \in TextsOf(TemplatePieces, MaxTemplatePieces)}

RInit ==
    /\ PipeInit
    /\ config = NoneConfig
    /\ text = ""
    /\ extracted = ""
    /\ reextracted = ""
    /\ xpc = "render_input"
    /\ template \in Templates
    /\ value \in TextsOf(ValuePieces, MaxValuePieces)
    /\ rendered = Formatted("")
    /\ OOff

\* enrichr.py 132, 232
Render ==
    /\ xpc = "render_input"
    /\ rendered' = Format(template.text, template.field, value)
    /\ xpc' = "rendered"
    /\ UNCHANGED <<pipe_vars, text, extracted, reextracted, template, value,
                   o_vars>>

RNext == Render

SpecRender == RInit /\ [][RNext]_vars

----------------------------------------------------------------------------
(* Properties of the rendering (specification SpecRender) *)

\* the placeholder of the template in hand
Placeholder == "{" \o template.field \o "}"

\* the template holds its placeholder once and no other brace
SinglePlaceholder ==
    /\ \E i \in 1..Len(template.text) :
        /\ TagAt(template.text, Placeholder, i)
        /\ ~HasTag(SubSeq(template.text, 1, i - 1), "{")
        /\ ~HasTag(SubSeq(template.text, 1, i - 1), "}")
        /\ ~HasTag(SubSeq(template.text, i + Len(Placeholder), Len(template.text)), "{")
        /\ ~HasTag(SubSeq(template.text, i + Len(Placeholder), Len(template.text)), "}")

C18_ValueVerbatim ==
    (xpc = "rendered" /\ SinglePlaceholder) =>
        /\ rendered.ok
        /\ \A i \in 1..Len(template.text) :
            TagAt(template.text, Placeholder, i) =>
                rendered.text =
                    SubSeq(template.text, 1, i - 1) \o value
                        \o SubSeq(template.text, i + Len(Placeholder),
                                  Len(template.text))
        /\ template.text = EnrichTemplate => rendered.text = RenderEnrich(value)
        /\ template.text = PersonaTemplate => rendered.text = RenderPersona(value)

C18_Witness ==
    /\ xpc = "rendered"
    /\ template.text = EnrichTemplate
    /\ value = "{user_request}" \o "<b>"
    /\ rendered.ok
    /\ rendered.text = RenderEnrich("{user_request}<b>")


----------------------------------------------------------------------------
(* Properties of the endpoint's responses (specification Spec) *)

\* the event carries assistant content
CarriesContent(e) ==
    \/ "delta" \in DOMAIN e /\ "content" \in DOMAIN e.delta
    \/ "message" \in DOMAIN e

ContentOf(e) ==
    IF "delta" \in DOMAIN e THEN e.delta.content ELSE e.message.content

\* the handler of the request is over, normally or not
HandlerOver == http \in {"responded", "failed"}

\* C19: every streamed response of a server whose engine is initialized,
\* also when the pipeline short-circuits or the engine call fails, ends with
\* the [DONE] marker, emitted after the content chunk.
C19_StreamEndsWithDone ==
    (stream /\ HandlerOver /\ llm # 0) =>
        /\ Len(events) >= 2
        /\ events[Len(events)].object = "[DONE]"
        /\ \E i \in 1..(Len(events) - 1) : CarriesContent(events[i])

----------------------------------------------------------------------------
(* Startup of the service: main.py loads config.yaml and calls             *)
(* enrichr.initialize while the module is loaded, before the application    *)
(* serves a request.  model.py holds a second initialize, with its own      *)
(* handle, that no module calls.                                            *)

\* model.py 13, enrichr.py 16-18: the keys initialize reads
RequiredKeys == {"model_path", "n_ctx", "n_gpu_layers"}

\* config.yaml is there and parses; the keys it holds; the file at
\* model_path exists
Startups == [file : BOOLEAN, keys : SUBSET RequiredKeys, artifact : BOOLEAN]

\* mutant: only model_path is required, the other keys get defaults
MissingKeys_pathOnly(keys) == {"model_path"} \ keys

\* model.py 14-15, enrichr.py 16-18: the required keys config lacks
MissingKeys(keys) == RequiredKeys \ keys

SInit ==
    /\ PipeInit
    /\ config \in Configs
    /\ text = ""
    /\ extracted = ""
    /\ reextracted = ""
    /\ xpc = "off"
    /\ ROff
    /\ startup \in Startups
    /\ process = "loading"
    /\ reqs = <<>>
    /\ lists = <<>>

\* main.py 20-37: a missing or unparsable config.yaml ends the process; a
\* config without model_path is only warned about
LoadConfig ==
    /\ process = "loading"
    /\ process' = IF startup.file THEN "configured" ELSE "terminated"
    /\ UNCHANGED <<pipe_vars, text, extracted, reextracted, xpc, r_vars,
                   startup, c_vars>>

\* main.py 74 and enrichr.py 12-19: config[key] raises KeyError for a missing
\* key and Llama raises for a model file that does not exist; neither is
\* caught, so loading main.py fails and the process ends
StartInitialize ==
    /\ process = "configured"
    /\ IF MissingKeys(startup.keys) # {} \/ ~startup.artifact
       THEN /\ process' = "terminated"
            /\ UNCHANGED llm
       ELSE /\ process' = "serving"
            /\ llm' = llm + 1
    /\ UNCHANGED <<pc, messages, config, stream, formatted_messages,
                   enriched_content, expert_persona, calls, responses, result,
                   error, http, events, text, extracted, reextracted, xpc,
                   r_vars, startup, c_vars>>

\* model.py 8-34: sys.exit(1) on a missing key, a missing file or a failed
\* load; otherwise model.llm is set (enrichr.llm is another variable)
ModelInitialize ==
    /\ process = "configured"
    /\ process' = IF MissingKeys(startup.keys) # {} \/ ~startup.artifact
                  THEN "terminated"
                  ELSE "model_ready"
    /\ UNCHANGED <<pipe_vars, text, extracted, reextracted, xpc, r_vars,
                   startup, c_vars>>

\* main.py 89-145 and enrichr.py 21-54 once the application serves
Serve ==
    \/ ChatCompletions
    \/ ProcessRequest
    \/ EngineFails
    \/ EnrichReturns
    \/ PersonaReturns
    \/ FinalReturns
    \/ Respond
    \/ HandlerRaises
    \/ Finish

SNext ==
    \/ LoadConfig
    \/ StartInitialize
    \/ ModelInitialize
    \/ process = "serving" /\ Serve

SpecStartup == SInit /\ [][SNext]_vars

----------------------------------------------------------------------------
(* Properties of the startup (specification SpecStartup) *)

\* the startup config lacks a key or the model artifact does not exist
BadStartup ==
    \/ \E k \in {"model_path", "n_ctx", "n_gpu_layers"} : k \notin startup.keys
    \/ ~startup.artifact

----------------------------------------------------------------------------
(* Several runs of process_request against the one engine handle.  Each    *)
(* run has its own locals; the list objects (the caller's conversation and *)
(* the list process_request builds) live in `lists` and the locals hold    *)
(* references to them; llm and config are the module globals every run     *)
(* reads.  main.py calls process_request from its event loop, which runs   *)
(* one call at a time; here the runs interleave at every engine call, as   *)
(* they do for a caller that uses threads, which includes main.py's order. *)

\* most runs in flight together
MaxRequests == 2

RequestIds == 1..MaxRequests

\* the conversations the runs are given
ConcConversations ==
    {<<>>,
     <<[role |-> "user", content |-> "ok"]>>,
     <<[role |-> "assistant", content |-> "ok"],
       [role |-> "user", content |-> "Tell me about bookstores."]>>}

ConcConfigs == {DictConfig(<<>>), DictConfig([temperature |-> "0.2"])}

ConcEnrichResponses ==
    {" \n",
     "Plain answer with no tags.",
     "<refined_prompt>truncated"}

ConcPersonaResponses ==
    {"",
     "<ideal_expert>Retail economist</ideal_expert>",
     "<reflection_points><domain>Retail</domain><ideal_expert>Retail economist</ideal_expert></reflection_points>"}

\* no list object
NoList == 0

\* the locals of a run that has not been called
IdleRun ==
    [pc |-> "idle", given |-> <<>>, messages |-> NoList,
     formatted_messages |-> NoList, enriched_content |-> "",
     expert_persona |-> "", calls |-> <<>>, responses |-> <<>>,
     result |-> "", error |-> "none"]

\* mutant: formatted_messages is bound to the caller's own list
NewList_alias(r, src) == src

\* mutant: every run uses one module-level list
NewList_global(r, src) == MaxRequests + 1

\* enrichr.py 27: the list comprehension makes a new list object
NewList(r, src) == MaxRequests + r

CInit ==
    /\ PipeInit
    /\ text = ""
    /\ extracted = ""
    /\ reextracted = ""
    /\ xpc = "off"
    /\ ROff
    /\ startup = [file |-> TRUE, keys |-> {}, artifact |-> TRUE]
    /\ process = "untracked"
    /\ config \in ConcConfigs
    /\ reqs = [r \in RequestIds |-> IdleRun]
    /\ lists = [l \in 1..(2 * MaxRequests) |-> <<>>]

c_frame == <<pc, messages, stream, formatted_messages, enriched_content,
             expert_persona, calls, responses, result, error, http, events,
             text, extracted, reextracted, xpc, r_vars, s_vars>>

\* enrichr.py 12-19, called once before the runs
CInitialize ==
    /\ llm = 0
    /\ llm' = 1
    /\ UNCHANGED <<config, c_frame, c_vars>>

\* main.py 125, 139: process_request(request.messages, config) is called with
\* the list object of the request
CCall(r) ==
    /\ reqs[r].pc = "idle"
    /\ \E msgs \in ConcConversations :
        /\ lists' = [lists EXCEPT ![r] = msgs]
        /\ reqs' = [reqs EXCEPT ![r] =
                [IdleRun EXCEPT !.pc = "called", !.given = msgs, !.messages = r]]
    /\ UNCHANGED <<llm, config, c_frame>>

\* enrichr.py 21-29 and 67-140: up to the enrichment call
CProcessRequest(r) ==
    /\ reqs[r].pc = "called"
    /\ IF IsNone(llm)
       THEN /\ reqs' = [reqs EXCEPT ![r].pc = "raised",
                                    ![r].error = "RuntimeError"]
            /\ UNCHANGED lists
       ELSE LET fm == NewList(r, reqs[r].messages)
                built == [lists EXCEPT ![fm] = History(lists[reqs[r].messages])]
                msgs == built[reqs[r].messages]
            IN  /\ lists' = built
                /\ IF Len(msgs) = 0
                   THEN reqs' = [reqs EXCEPT ![r].pc = "raised",
                                             ![r].error = "IndexError",
                                             ![r].formatted_messages = fm]
                   ELSE reqs' = [reqs EXCEPT
                            ![r].pc = "enrich_call",
                            ![r].formatted_messages = fm,
                            ![r].calls = <<CreateChatCompletion(
                                <<[role |-> "user",
                                   content |-> RenderEnrich(msgs[Len(msgs)].content)]>>,
                                config)>>]
    /\ UNCHANGED <<llm, config, c_frame>>

\* llm.create_chat_completion raises in run r
CEngineFails(r) ==
    /\ reqs[r].pc \in {"enrich_call", "persona_call", "final_call"}
    /\ reqs' = [reqs EXCEPT ![r].pc = "raised", ![r].error = "EngineError"]
    /\ UNCHANGED <<llm, config, lists, c_frame>>

\* enrichr.py 142-168, 30-35 and 181-240 in run r
CEnrichReturns(r) ==
    /\ reqs[r].pc = "enrich_call"
    /\ \E t \in ConcEnrichResponses :
        LET response == Response(t)
            enriched == ExtractRefinedPrompt(ResponseText(response))
            got == [reqs[r] EXCEPT !.responses = Append(@, response),
                                   !.enriched_content = enriched]
        IN  reqs' = [reqs EXCEPT ![r] =
                IF IsBlank(enriched)
                THEN [got EXCEPT !.result = EnrichFallback, !.pc = "returned"]
                ELSE [got EXCEPT
                        !.calls = Append(@, CreateChatCompletion(
                            <<[role |-> "user", content |-> RenderPersona(enriched)]>>,
                            config)),
                        !.pc = "persona_call"]]
    /\ UNCHANGED <<llm, config, lists, c_frame>>

\* enrichr.py 242-274 and 36-50 in run r: line 41 appends to the list
\* formatted_messages refers to
CPersonaReturns(r) ==
    /\ reqs[r].pc = "persona_call"
    /\ \E t \in ConcPersonaResponses :
        LET response == Response(t)
            persona == ExtractExpert(ResponseText(response))
            got == [reqs[r] EXCEPT !.responses = Append(@, response),
                                   !.expert_persona = persona]
            fm == reqs[r].formatted_messages
            final_prompt == build_final_prompt(reqs[r].enriched_content, persona)
            msgs == lists[reqs[r].messages]
            appended == Append(lists[fm], FinalTurn(msgs[Len(msgs)], final_prompt))
        IN  IF IsBlank(persona)
            THEN /\ reqs' = [reqs EXCEPT ![r] =
                        [got EXCEPT !.result = PersonaFallback, !.pc = "returned"]]
                 /\ UNCHANGED lists
            ELSE /\ lists' = [lists EXCEPT ![fm] = appended]
                 /\ reqs' = [reqs EXCEPT ![r] =
                        [got EXCEPT
                            !.calls = Append(@, CreateChatCompletion(appended, config)),
                            !.pc = "final_call"]]
    /\ UNCHANGED <<llm, config, c_frame>>

\* enrichr.py 52-54 in run r
CFinalReturns(r) ==
    /\ reqs[r].pc = "final_call"
    /\ \E t \in FinalResponses :
        reqs' = [reqs EXCEPT
                    ![r].responses = Append(@, Response(t)),
                    ![r].result = ModelResponse(Response(t), reqs[r].expert_persona),
                    ![r].pc = "returned"]
    /\ UNCHANGED <<llm, config, lists, c_frame>>

CNext ==
    \/ CInitialize
    \/ \E r \in RequestIds :
        \/ CCall(r)
        \/ CProcessRequest(r)
        \/ CEngineFails(r)
        \/ CEnrichReturns(r)
        \/ CPersonaReturns(r)
        \/ CFinalReturns(r)

SpecConc == CInit /\ [][CNext]_vars


----------------------------------------------------------------------------
(* Properties of concurrent runs (specification SpecConc) *)

\* the run has been called
Called(r) == reqs[r].pc # "idle"

\* the way the run ended, if it has
Outcome(r) ==
    IF reqs[r].pc = "raised" THEN "failure"
    ELSE IF reqs[r].pc # "returned" THEN "running"
    ELSE IF Len(reqs[r].calls) = 3 THEN "DONE"
    ELSE IF Len(reqs[r].calls) = 2 THEN "PERSONA_EMPTY"
    ELSE "ENRICH_EMPTY"

\* C22: a run of process_request leaves the caller's conversation (the list
\* object and every turn in it) and the config mapping as they were given,
\* at every point and on every exit path; the list the run builds and sends
\* to the final call is another object than the caller's.
C22_InputsUntouched ==
    /\ [](\A r \in RequestIds :
            Called(r) =>
                /\ lists[reqs[r].messages] = reqs[r].given
                /\ reqs[r].formatted_messages # reqs[r].messages)
    /\ [][config' = config]_vars

C22_Witness ==
    /\ Outcome(1) = "DONE"
    /\ Outcome(2) = "PERSONA_EMPTY"
    /\ Len(reqs[1].given) = 2
    /\ lists[reqs[1].messages] = reqs[1].given
    /\ Len(lists[reqs[1].formatted_messages]) = 2
    /\ reqs[1].calls[3].messages = lists[reqs[1].formatted_messages]

\* the list objects run r holds
Held(r) == {reqs[r].messages, reqs[r].formatted_messages} \ {NoList}

\* the given conversation without its last turn, as role/content pairs
OwnHistory(r) ==
    [i \in 1..(Len(reqs[r].given) - 1) |->
        [role |-> reqs[r].given[i].role, content |-> reqs[r].given[i].content]]

\* C23: with several runs interleaved, a step of one run leaves the engine
\* handle, the config, the locals of every other run and the lists those
\* runs hold as they are; two runs given the same conversation that got the
\* same responses are in the same state; and the final invocation of a run
\* carries the history of its own conversation.
C23_RunsIsolated ==
    /\ [][\A r \in RequestIds :
            reqs'[r] # reqs[r] =>
                /\ llm' = llm
                /\ config' = config
                /\ \A q \in RequestIds \ {r} :
                    /\ reqs'[q] = reqs[q]
                    /\ \A l \in Held(q) : lists'[l] = lists[l]]_vars
    /\ [](\A r, q \in RequestIds :
            (/\ reqs[r].given = reqs[q].given
             /\ reqs[r].responses = reqs[q].responses
             /\ reqs[r].pc = reqs[q].pc
             /\ reqs[r].error = reqs[q].error) =>
                /\ reqs[r].calls = reqs[q].calls
                /\ reqs[r].result = reqs[q].result)
    /\ [](\A r \in RequestIds :
            Len(reqs[r].calls) = 3 =>
                /\ Len(reqs[r].calls[3].messages) = Len(reqs[r].given)
                /\ \A i \in 1..(Len(reqs[r].given) - 1) :
                    reqs[r].calls[3].messages[i] = OwnHistory(r)[i])

C23_Witness ==
    /\ reqs[1].pc = "final_call"
    /\ reqs[2].pc = "persona_call"
    /\ Len(reqs[1].given) = 2
    /\ Len(reqs[2].given) = 1
    /\ reqs[1].calls[3].messages[1] = [role |-> "assistant", content |-> "ok"]
    /\ reqs[1].enriched_content # reqs[2].enriched_content
    /\ llm = 1


----------------------------------------------------------------------------
(* The older copy of the pipeline, src/modl.py: enrichment, then the final *)
(* call; no persona stage.  Its enrich_request is, line for line, the one   *)
(* of enrichr.py.                                                           *)

\* a caller calls modl.process_request(messages, config)
ModlCall ==
    /\ http = "idle"
    /\ pc = "idle"
    /\ \E msgs \in Conversations : messages' = msgs
    /\ http' = "modl"
    /\ pc' = "called"
    /\ UNCHANGED <<llm, config, stream, formatted_messages, enriched_content,
                   expert_persona, calls, responses, result, error, events,
                   x_vars>>

\* modl.py 21-28 and 52-125: process_request up to the enrichment call
ModlProcessRequest ==
    /\ http = "modl"
    /\ pc = "called"
    /\ IF IsNone(llm)
       THEN /\ pc' = "raised"
            /\ error' = "RuntimeError"
            /\ UNCHANGED <<formatted_messages, calls>>
       ELSE IF Len(messages) = 0
       THEN /\ pc' = "raised"
            /\ error' = "IndexError"
            /\ formatted_messages' = History(messages)
            /\ UNCHANGED calls
       ELSE /\ formatted_messages' = History(messages)
            /\ calls' = Append(calls, CreateChatCompletion(
                   <<[role |-> "user",
                      content |-> RenderEnrich(messages[Len(messages)].content)]>>,
                   config))
            /\ pc' = "enrich_call"
            /\ UNCHANGED error
    /\ UNCHANGED <<llm, messages, config, stream, enriched_content,
                   expert_persona, responses, result, http, events, x_vars>>

\* modl.py 127-153 and 28-37: the enrichment call returns; whatever was
\* extracted becomes the content of the last turn of the final call
ModlEnrichReturns ==
    /\ http = "modl"
    /\ pc = "enrich_call"
    /\ \E r \in EnrichResponses :
        LET response == Response(r)
            enriched == ExtractRefinedPrompt(ResponseText(response))
            final_messages ==
                Append(formatted_messages,
                       [role |-> messages[Len(messages)].role,
                        content |-> enriched])
        IN  /\ responses' = Append(responses, response)
            /\ enriched_content' = enriched
            /\ formatted_messages' = final_messages
            /\ calls' = Append(calls, CreateChatCompletion(final_messages, config))
    /\ pc' = "final_call"
    /\ UNCHANGED <<llm, messages, config, stream, expert_persona, result,
                   error, http, events, x_vars>>

\* modl.py 39: the final call returns
ModlFinalReturns ==
    /\ http = "modl"
    /\ pc = "final_call"
    /\ \E r \in FinalResponses :
        /\ responses' = Append(responses, Response(r))
        /\ result' = ResponseText(Response(r))
    /\ pc' = "returned"
    /\ UNCHANGED <<llm, messages, config, stream, formatted_messages,
                   enriched_content, expert_persona, calls, error, http,
                   events, x_vars>>

\* modl.py 32-37, 106-111: llm.create_chat_completion raises
ModlEngineFails ==
    /\ http = "modl"
    /\ pc \in {"enrich_call", "final_call"}
    /\ pc' = "raised"
    /\ error' = "EngineError"
    /\ UNCHANGED <<llm, messages, config, stream, formatted_messages,
                   enriched_content, expert_persona, calls, responses, result,
                   http, events, x_vars>>

MNext ==
    \/ Initialize
    \/ ModlCall
    \/ ModlProcessRequest
    \/ ModlEnrichReturns
    \/ ModlFinalReturns
    \/ ModlEngineFails

SpecModl == Init /\ [][MNext]_vars

----------------------------------------------------------------------------
(* Properties of the older copy (specification SpecModl) *)

\* C24: for the same conversation, config and engine responses,
\* modl.process_request issues the first invocation enrichr.process_request
\* issues, extracts the same refined request, and returns the enrichment
\* fallback notice without a further invocation when that refined request
\* is empty or whitespace-only.
C24_ModlMatchesEnrichr ==
    /\ Len(calls) >= 1 =>
        calls[1] = CreateChatCompletion(
                       <<[role |-> "user", content |-> RenderEnrich(LastTurn.content)]>>,
                       config)
    /\ Len(responses) >= 1 =>
        /\ enriched_content = ExtractRefinedPrompt(ResponseContent(1))
        /\ WhitespaceOnly(enriched_content) =>
            /\ Len(calls) = 1
            /\ pc = "returned"
            /\ result = "No enriched content generated. Returning original message."


----------------------------------------------------------------------------
(* Progress of process_request.  process_request is straight-line code, so *)
(* a call that has started goes on to its first engine invocation; an       *)
(* engine invocation is assumed to return or fail in the end.               *)

EngineAnswers == EngineFails \/ EnrichReturns \/ PersonaReturns \/ FinalReturns

SpecFair ==
    /\ Init
    /\ [][Next]_vars
    /\ WF_vars(ProcessRequest)
    /\ WF_vars(EngineAnswers)

\* how far a run has come
Stage(p) ==
    CASE p = "idle" -> 0
      [] p = "called" -> 1
      [] p = "enrich_call" -> 2
      [] p = "persona_call" -> 3
      [] p = "final_call" -> 4
      [] p \in {"returned", "raised"} -> 5

Terminal == pc \in {"returned", "raised"}

\* the run has ended in exactly one of the four ways
OneOutcome ==
    Cardinality({o \in {"DONE", "ENRICH_EMPTY", "PERSONA_EMPTY", "failure"} :
        \/ o = "failure" /\ pc = "raised" /\ error # "none" /\ result = ""
        \/ o = "ENRICH_EMPTY" /\ pc = "returned" /\ error = "none"
            /\ Len(calls) = 1 /\ Len(responses) = 1
            /\ result = "No enriched content generated. Returning original message."
        \/ o = "PERSONA_EMPTY" /\ pc = "returned" /\ error = "none"
            /\ Len(calls) = 2 /\ Len(responses) = 2
            /\ result = "No expert persona generated. Returning enriched content."
        \/ o = "DONE" /\ pc = "returned" /\ error = "none"
            /\ Len(calls) = 3 /\ Len(responses) = 3
            /\ result = ResponseContent(3)}) = 1

\* C25: if every engine invocation returns or fails in the end, every run of
\* process_request on an initialized engine ends, in exactly one of DONE,
\* ENRICH_EMPTY, PERSONA_EMPTY or a raised failure; its stages only advance,
\* and once ended it stays as it ended.
C25_Terminates ==
    /\ (pc = "called" /\ llm # 0) ~> Terminal
    /\ [](Terminal => OneOutcome)
    /\ [][(pc # "idle" /\ pc' # "idle") =>
            /\ Stage(pc') >= Stage(pc)
            /\ Len(calls') >= Len(calls)
            /\ Terminal => (pc' = pc /\ result' = result /\ error' = error)]_vars

C25_Witness ==
    /\ pc = "returned"
    /\ llm # 0
    /\ Len(messages) = 2
    /\ Len(calls) = 3
    /\ result = "Final answer."
    /\ http = "handling"


----------------------------------------------------------------------------
(* Further properties of the stages (specification Spec) *)

\* C26: the enrichment and the persona invocation each carry one turn, of
\* role "user", whose content is the stage's rendered template; the persona
\* template is rendered with the refined request extracted from the first
\* response, not with the original last message; the history of the
\* conversation is in the final invocation only.
C26_StageInvocations ==
    /\ Len(calls) >= 1 =>
        calls[1].messages =
            <<[role |-> "user", content |-> RenderEnrich(LastTurn.content)]>>
    /\ Len(calls) >= 2 =>
        /\ enriched_content =
            TolerantExtract(ResponseContent(1), "<refined_prompt>",
                            "</refined_prompt>")
        /\ calls[2].messages =
            <<[role |-> "user", content |-> RenderPersona(enriched_content)]>>
    /\ Len(calls) >= 3 =>
        /\ Len(calls[3].messages) = Len(messages)
        /\ \A i \in 1..(Len(messages) - 1) :
            calls[3].messages[i] =
                [role |-> messages[i].role, content |-> messages[i].content]

C26_Witness ==
    /\ Len(calls) = 3
    /\ Len(messages) = 2
    /\ messages[1] = [role |-> "assistant", content |-> "ok"]
    /\ LastTurn.content = "Tell me about bookstores."
    /\ enriched_content = "Q2"
    /\ calls[2].messages[1].content = RenderPersona("Q2")
    /\ Len(calls[1].messages) = 1
    /\ calls[3].messages[1] = [role |-> "assistant", content |-> "ok"]

\* C27: when the persona-stage response has no <reflection_points> opening
\* tag, the persona is the empty string and process_request returns the
\* persona fallback notice after two invocations, also when the response
\* holds a well-formed <ideal_expert> field.
C27_NoBlockNoPersona ==
    (Len(responses) >= 2 /\ ~HasTag(ResponseContent(2), "<reflection_points>")) =>
        /\ expert_persona = ""
        /\ Len(calls) = 2
        /\ Len(responses) = 2
        /\ pc = "returned"
        /\ error = "none"
        /\ result = "No expert persona generated. Returning enriched content."
        /\ http = "responded" => Delivered = result

C27_Witness ==
    /\ Len(responses) = 2
    /\ ResponseContent(2) = "<ideal_expert>Retail economist</ideal_expert>"
    /\ expert_persona = ""
    /\ pc = "returned"
    /\ http = "responded"
    /\ result = "No expert persona generated. Returning enriched content."

\* C28: process_request called on an initialized engine with an empty
\* conversation raises an error before any engine invocation; nothing is
\* invoked, nothing is returned and no content reaches the client.
C28_EmptyConversationFails ==
    (http # "idle" /\ llm # 0 /\ Len(messages) = 0) =>
        /\ calls = <<>>
        /\ responses = <<>>
        /\ result = ""
        /\ pc \in {"called", "raised"}
        /\ pc = "raised" => error = "IndexError"
        /\ http \in {"handling", "failed"}
        /\ \A i \in 1..Len(events) : ~CarriesContent(events[i])

C28_Witness ==
    /\ http = "failed"
    /\ llm # 0
    /\ messages = <<>>
    /\ pc = "raised"
    /\ error = "IndexError"
    /\ calls = <<>>

====
